---- MODULE Spec2Model ----
(***************************************************************************)
(* A model of runner/__init__.py: the run supervisor (start, run, aio_run, *)
(* sigint_handler), the lifecycle hook registry (before_start, after_stop) *)
(* and the process orchestrator (main).                                    *)
(*                                                                         *)
(* One behaviour is one call of main().  With processes <= 1 it follows    *)
(* start() in the calling process, in the synchronous model (run) or in    *)
(* the asynchronous one (asyncio.run(aio_run(...)) on a single-threaded    *)
(* event loop with a FIFO ready queue).  With processes > 1 it follows     *)
(* the orchestrator's spawn, poll and shutdown loops over its replicas.    *)
(***************************************************************************)
EXTENDS Integers, Sequences, FiniteSets, TLC

\* ------------------------------------------------------------------ bounds
\* hooks registered per registry
MaxHooks == 2
\* suspensions (awaits) of the unit's entry point in one run
MaxAwaits == 2
\* interrupt signals delivered to the process in one run
MaxSigint == 2
\* largest replica count given to main()
MaxProcs == 3
\* longest argument list given to split_argv
MaxArgs == 5
\* largest number of whole hours in a duration given to pretty_time
MaxHours == 10

\* the bounded wait of p.join(10), in time units
Quantum == 10

VARIABLES
    \* ---- main()
    mainPc,               \* "init", "direct", "spawn", "poll", "terminate", "grace",
                          \* "returned"
    processes,            \* args.processes
    unitAsync,            \* asyncio.iscoroutinefunction(module.main)
    \* ---- the hook registry
    before_start_events,  \* sequence of "sync" / "async" (coroutine function)
    after_stop_events,
    \* ---- start() / run() / aio_run()
    pc,                   \* "idle", "load", "before", "main", "mktask", "await",
                          \* "wait", "after", "done"
    idx,                  \* 1-based position of the hook loop in its registry
    inHook,               \* "no", "run" (executing), "susp" (suspended at an await)
    beforeCalls,          \* per before-start hook: invocations begun
    beforeDone,           \* per before-start hook: invocations completed
    afterCalls,           \* per after-stop hook: invocations begun
    afterDone,            \* per after-stop hook: invocations completed
    entry,                \* module.main: "none", "running", "cleanup", "returned",
                          \* "raised", "interrupted", "cancelled", "exited"
    raising,              \* exception in flight through the finally block:
                          \* "none", "error", "exit", "cancel"
    hookFailed,           \* some hook raised
    outcome,              \* of start(): "none", "finished", "error", "exit1"
    \* ---- asynchronous model
    stop_event,           \* "None", "clear", "set"
    global_task,          \* "None", "main_task"
    task,                 \* main_task: "none", "scheduled", "run", "susp", "done"
    mustCancel,           \* main_task: cancellation requested, not yet delivered
    supCancel,            \* aio_run's task: the same
    ready,                \* the event loop's FIFO queue of handles
    cur,                  \* the task the loop is stepping: "none", "aio_run", "main_task"
    loop,                 \* asyncio.run: "off", "run", "close", "closed"
    pendingExc,           \* what asyncio.run will raise: "none", "error", "exit"
    awaits,               \* suspensions of the entry point so far
    sigints,              \* interrupt signals delivered so far
    exiting,              \* sigint_handler has called sys.exit(1)
    \* ---- orchestrator
    procs,                \* the list "processes" of main(): one record per replica
    pi,                   \* 1-based position of the poll / shutdown loop
    running,              \* the flag of the poll loop
    remaining,            \* time left in the current p.join(10)
    elapsed,              \* time since the first replica exit (saturating), -1 before
    \* ---- the calling process
    environ,              \* os.environ: <<>> or <<PROCESS_ID, PROCESSES>>
    startCalls,           \* calls of start() made by main() in this process
    \* ---- split_argv() and pretty_time() called on their own
    utilFn,               \* "none", "split_argv", "pretty_time"
    argvArg,              \* the list passed to split_argv: a sequence of tokens
    tArg,                 \* the number of seconds passed to pretty_time
    retval                \* <<"pending">>, then <<"returned", the value returned>>

regVars == <<before_start_events, after_stop_events>>
cntVars == <<beforeCalls, beforeDone, afterCalls, afterDone>>
aioVars == <<stop_event, global_task, task, mustCancel, supCancel, ready, cur, loop,
             pendingExc, awaits, sigints, exiting>>
orchVars == <<procs, pi, running, remaining, elapsed>>
runVars == <<pc, idx, inHook, entry, raising, hookFailed, outcome>>
utilVars == <<utilFn, argvArg, tArg, retval>>
cfgVars == <<processes, unitAsync, utilVars>>
envVars == <<environ, startCalls>>
vars == <<mainPc, cfgVars, envVars, regVars, cntVars, runVars, aioVars, orchVars>>

HookKinds == {"sync", "async"}

\* ------------------------------------------------------------------ helpers
Inc(s, i) == [s EXCEPT ![i] = @ + 1]

InReady(rdy, h) == \E i \in DOMAIN rdy : rdy[i] = h

\* call_soon of a task's wakeup: a task is queued at most once
Woken(rdy, h) == IF InReady(rdy, h) THEN rdy ELSE Append(rdy, h)

Events(p) == IF p = "before" THEN before_start_events ELSE after_stop_events

\* ------------------------------------------------------------------ Init
\* the default of start()'s parameters processes and process_id
None == -1

\* what the calling process may find in its environment: nothing, or the
\* identity it inherited from a replica that launched it
InheritedEnv == {<<>>, <<1, 2>>}

\* the module as imported, and a process that has not called anything yet
Loaded ==
    /\ mainPc = "init"
    /\ startCalls = 0
    /\ before_start_events = <<>>
    /\ after_stop_events = <<>>
    /\ pc = "idle" /\ idx = 1 /\ inHook = "no"
    /\ beforeCalls = <<>> /\ beforeDone = <<>>
    /\ afterCalls = <<>> /\ afterDone = <<>>
    /\ entry = "none" /\ raising = "none" /\ hookFailed = FALSE /\ outcome = "none"
    /\ stop_event = "None" /\ global_task = "None" /\ task = "none"
    /\ mustCancel = FALSE /\ supCancel = FALSE
    /\ ready = <<>> /\ cur = "none" /\ loop = "off" /\ pendingExc = "none"
    /\ awaits = 0 /\ sigints = 0 /\ exiting = FALSE
    /\ procs = <<>> /\ pi = 1 /\ running = TRUE /\ remaining = 0 /\ elapsed = -1

\* no call of split_argv / pretty_time on its own is under way
NoUtil == utilFn = "none" /\ argvArg = <<>> /\ tArg = 0 /\ retval = <<"pending">>

\* main(script, *argv) is called; args.processes is what argparse made of -p.
\* start() deals with the environment before it dispatches on the unit's kind
\* (lines 150-157): an inherited identity is followed through synchronous runs.
Init ==
    /\ Loaded
    /\ NoUtil
    /\ processes \in 1..MaxProcs
    /\ unitAsync \in BOOLEAN
    /\ (processes > 1 => ~unitAsync)
    /\ environ \in InheritedEnv
    /\ (processes > 1 \/ unitAsync) => environ = <<>>

\* ------------------------------------------------------------------ main()
\* main(), processes <= 1: start(args.module_name, module_argv) in this process
MainDirect ==
    /\ mainPc = "init"
    /\ ~(processes > 1)
    /\ mainPc' = "direct"
    /\ startCalls' = startCalls + 1
    /\ pc' = "load"
    /\ UNCHANGED <<cfgVars, environ, regVars, cntVars, idx, inHook, entry, raising,
                   hookFailed, outcome, aioVars, orchVars>>

\* ------------------------------------------------------------------ registry
\* before_start(evt), called by the unit's own code while start() imports it
before_start(evt) ==
    /\ pc = "load"
    /\ Len(before_start_events) < MaxHooks
    /\ before_start_events' = Append(before_start_events, evt)
    /\ beforeCalls' = Append(beforeCalls, 0)
    /\ beforeDone' = Append(beforeDone, 0)
    /\ UNCHANGED <<mainPc, cfgVars, envVars, after_stop_events, afterCalls, afterDone,
                   runVars, aioVars, orchVars>>

\* after_stop(evt)
after_stop(evt) ==
    /\ pc = "load"
    /\ Len(after_stop_events) < MaxHooks
    /\ after_stop_events' = Append(after_stop_events, evt)
    /\ afterCalls' = Append(afterCalls, 0)
    /\ afterDone' = Append(afterDone, 0)
    /\ UNCHANGED <<mainPc, cfgVars, envVars, before_start_events, beforeCalls,
                   beforeDone, runVars, aioVars, orchVars>>

\* ------------------------------------------------------------------ start()
\* start(module_name, argv) as main() calls it in its own process
DirectArgs == [process_id |-> None, processes |-> None]

\* a start() that publishes whatever it was given
PublishedEnvAlways(env, args) == <<args.process_id, args.processes>>

\* "if process_id is not None": os.environ['PROCESS_ID'], os.environ['PROCESSES']
PublishedEnv(env, args) ==
    IF args.process_id # None THEN <<args.process_id, args.processes>> ELSE env

\* start() after import_module: the identity is published, if one was given; then the dispatch on iscoroutinefunction(module.main).  The asynchronous
\* branch enters asyncio.run, whose loop steps aio_run's task first; aio_run
\* installs sigint_handler before anything else.
StartDispatch ==
    /\ pc = "load"
    /\ environ' = PublishedEnv(environ, DirectArgs)
    /\ pc' = "before"
    /\ idx' = 1
    /\ IF unitAsync
         THEN loop' = "run" /\ cur' = "aio_run"
         ELSE UNCHANGED <<loop, cur>>
    /\ UNCHANGED <<mainPc, cfgVars, startCalls, regVars, cntVars, inHook, entry, raising,
                   hookFailed, outcome, stop_event, global_task, task, mustCancel,
                   supCancel, ready, pendingExc, awaits, sigints, exiting, orchVars>>

\* ------------------------------------------------------------------ event loop
\* Task.cancel() of every task asyncio.run finds pending when it closes the loop
\* (_cancel_all_tasks): a suspended task is woken to receive CancelledError, a
\* queued one receives it at its next step.  supPending / supSusp: aio_run's task
\* is not done / is suspended; tsk, mc: main_task's state and pending cancellation.
CancelAll(rdy, supPending, supSusp, tsk, mc) ==
    LET r0 == SelectSeq(rdy, LAMBDA h : h # "stop")
        r1 == IF supPending /\ supSusp THEN Woken(r0, "aio_run") ELSE r0
        r2 == IF tsk = "susp" THEN Woken(r1, "main_task") ELSE r1
    IN  [ready |-> r2,
         supCancel |-> supPending,
         mustCancel |-> (mc \/ tsk \in {"scheduled", "susp"})]

\* aio_run's task is suspended: at stop_event.wait() or inside an async hook
SupSuspended == cur # "aio_run" /\ (pc = "wait" \/ inHook = "susp")

\* aio_run's coroutine ends: exc is "none" (it returned), or the exception that
\* left it.  While asyncio.run is in run_until_complete(aio_run) the loop stops
\* after the handles queued before its done-callback ("stop"); SystemExit is
\* re-raised by the task's step straight through the loop, after which
\* asyncio.run cancels what is left and runs the loop until it has ended.
AioRunEnds(exc) ==
    /\ pc' = "done" /\ inHook' = "no" /\ cur' = "none"
    /\ IF loop = "run"
         THEN IF exc = "exit"
                THEN LET c == CancelAll(ready, FALSE, FALSE, task, mustCancel) IN
                     /\ loop' = "close" /\ pendingExc' = "exit"
                     /\ ready' = c.ready /\ mustCancel' = c.mustCancel
                     /\ UNCHANGED <<supCancel, outcome>>
                ELSE /\ ready' = Append(ready, "stop") /\ pendingExc' = exc
                     /\ UNCHANGED <<loop, mustCancel, supCancel, outcome>>
         ELSE IF exc = "exit"
                THEN /\ loop' = "closed" /\ outcome' = "exit1"
                     /\ UNCHANGED <<ready, pendingExc, mustCancel, supCancel>>
                ELSE UNCHANGED <<ready, loop, pendingExc, mustCancel, supCancel, outcome>>

\* ------------------------------------------------------------------ hooks
\* the code of run() / aio_run() is what the interpreter is executing
OnCpu == IF unitAsync THEN cur = "aio_run" ELSE mainPc = "direct"

\* a hook loop that stops one hook short
BeforeHooksDoneEarly == idx >= Len(before_start_events)

\* "for evt in before_start_events" has no hook left
BeforeHooksDone == idx > Len(before_start_events)

\* "for evt in after_stop_events" has no hook left
AfterHooksDone == idx > Len(after_stop_events)

\* a loop that takes the registry from its end
HookAtReversed(i) == Len(Events(pc)) + 1 - i

\* "for evt in ..._events": the registry entry the i-th iteration takes
HookAt(i) == i

\* the hook loops call the next hook: evt(module), asyncio.run(evt(module)) or
\* await evt(module).  In aio_run an async hook suspends at its await and the
\* loop is free to step other tasks; everywhere else the hook runs in place.
HookInvoke ==
    /\ pc \in {"before", "after"} /\ inHook = "no" /\ OnCpu
    /\ idx <= Len(Events(pc))
    /\ IF pc = "before"
         THEN beforeCalls' = Inc(beforeCalls, HookAt(idx)) /\ UNCHANGED <<beforeDone, afterCalls, afterDone>>
         ELSE afterCalls' = Inc(afterCalls, HookAt(idx)) /\ UNCHANGED <<beforeCalls, beforeDone, afterDone>>
    /\ IF unitAsync /\ Events(pc)[HookAt(idx)] = "async"
         THEN inHook' = "susp" /\ cur' = "none"
         ELSE inHook' = "run" /\ UNCHANGED cur
    /\ UNCHANGED <<mainPc, cfgVars, envVars, regVars, pc, idx, entry, raising,
                   hookFailed, outcome, stop_event, global_task, task, mustCancel,
                   supCancel, ready, loop, pendingExc, awaits, sigints, exiting, orchVars>>

\* the hook returns; the loop moves to the next one
HookReturn ==
    /\ pc \in {"before", "after"} /\ inHook = "run" /\ OnCpu
    /\ IF pc = "before"
         THEN beforeDone' = Inc(beforeDone, HookAt(idx)) /\ UNCHANGED <<beforeCalls, afterCalls, afterDone>>
         ELSE afterDone' = Inc(afterDone, HookAt(idx)) /\ UNCHANGED <<beforeCalls, beforeDone, afterCalls>>
    /\ idx' = idx + 1
    /\ inHook' = "no"
    /\ UNCHANGED <<mainPc, cfgVars, envVars, regVars, pc, entry, raising, hookFailed,
                   outcome, aioVars, orchVars>>

\* hook loops that catch what a hook raises and go on to the next hook
HookRaiseSwallowed ==
    /\ pc \in {"before", "after"} /\ inHook = "run" /\ OnCpu
    /\ hookFailed' = TRUE
    /\ idx' = idx + 1
    /\ inHook' = "no"
    /\ UNCHANGED <<mainPc, cfgVars, envVars, regVars, cntVars, pc, entry, raising, outcome,
                   aioVars, orchVars>>

\* the hook raises: nothing in run() / aio_run() catches it
HookRaise ==
    /\ pc \in {"before", "after"} /\ inHook = "run" /\ OnCpu
    /\ hookFailed' = TRUE
    /\ IF unitAsync
         THEN /\ AioRunEnds("error")
              /\ UNCHANGED <<stop_event, global_task, task, awaits, sigints, exiting>>
         ELSE /\ pc' = "done" /\ inHook' = "no" /\ outcome' = "error"
              /\ UNCHANGED aioVars
    /\ raising' = "error"
    /\ UNCHANGED <<mainPc, cfgVars, envVars, regVars, cntVars, idx, entry, orchVars>>

\* ------------------------------------------------------------------ run()
\* run(): the before-start loop is over; module.main(*argv) is called
RunCallMain ==
    /\ ~unitAsync /\ pc = "before" /\ inHook = "no" /\ OnCpu
    /\ BeforeHooksDone
    /\ pc' = "main"
    /\ entry' = "running"
    /\ UNCHANGED <<mainPc, cfgVars, envVars, regVars, cntVars, idx, inHook, raising,
                   hookFailed, outcome, aioVars, orchVars>>

\* module.main ends: it returns, raises, or is interrupted (no handler is
\* installed in this model: SIGINT raises KeyboardInterrupt inside it); the
\* finally block starts the after-stop loop
RunMainEnds(how) ==
    /\ ~unitAsync /\ pc = "main"
    /\ entry' = how
    /\ raising' = IF how = "returned" THEN "none" ELSE "error"
    /\ pc' = "after"
    /\ idx' = 1
    /\ UNCHANGED <<mainPc, cfgVars, envVars, regVars, cntVars, inHook, hookFailed,
                   outcome, aioVars, orchVars>>

\* a run() whose finally block swallows what the entry point raised
RunEndsSwallowing ==
    /\ ~unitAsync /\ pc = "after" /\ inHook = "no" /\ OnCpu
    /\ AfterHooksDone
    /\ pc' = "done"
    /\ outcome' = "finished"
    /\ mainPc' = "returned"
    /\ UNCHANGED <<cfgVars, envVars, regVars, cntVars, idx, inHook, entry, raising,
                   hookFailed, aioVars, orchVars>>

\* run(): the after-stop loop is over; the finally block re-raises what the
\* entry point raised, else run() returns and start() logs 'Finish'
RunEnds ==
    /\ ~unitAsync /\ pc = "after" /\ inHook = "no" /\ OnCpu
    /\ AfterHooksDone
    /\ pc' = "done"
    /\ outcome' = IF raising = "none" THEN "finished" ELSE "error"
    /\ mainPc' = IF raising = "none" THEN "returned" ELSE mainPc
    /\ UNCHANGED <<cfgVars, envVars, regVars, cntVars, idx, inHook, entry, raising,
                   hookFailed, aioVars, orchVars>>

\* ------------------------------------------------------------------ aio_run()
\* aio_run(): the before-start loop is over; stop_event = asyncio.Event()
AioNewEvent ==
    /\ unitAsync /\ pc = "before" /\ inHook = "no" /\ OnCpu
    /\ BeforeHooksDone
    /\ stop_event' = "clear"
    /\ pc' = "mktask"
    /\ UNCHANGED <<mainPc, cfgVars, envVars, regVars, cntVars, idx, inHook, entry,
                   raising, hookFailed, outcome, global_task, task, mustCancel, supCancel,
                   ready, cur, loop, pendingExc, awaits, sigints, exiting, orchVars>>

\* global_task = asyncio.create_task(main_task()): the task's first step is queued
AioCreateTask ==
    /\ pc = "mktask" /\ OnCpu
    /\ global_task' = "main_task"
    /\ task' = "scheduled"
    /\ mustCancel' = FALSE
    /\ ready' = Append(ready, "main_task")
    /\ pc' = "await"
    /\ UNCHANGED <<mainPc, cfgVars, envVars, regVars, cntVars, idx, inHook, entry,
                   raising, hookFailed, outcome, stop_event, supCancel, cur, loop,
                   pendingExc, awaits, sigints, exiting, orchVars>>

\* await stop_event.wait(): returns at once when the event is set, else suspends
AioAwaitEvent ==
    /\ pc = "await" /\ OnCpu
    /\ IF stop_event = "set"
         THEN pc' = "after" /\ idx' = 1 /\ UNCHANGED cur
         ELSE pc' = "wait" /\ cur' = "none" /\ UNCHANGED idx
    /\ UNCHANGED <<mainPc, cfgVars, envVars, regVars, cntVars, inHook, entry, raising,
                   hookFailed, outcome, stop_event, global_task, task, mustCancel,
                   supCancel, ready, loop, pendingExc, awaits, sigints, exiting, orchVars>>

\* aio_run(): the after-stop loop of the finally block is over; the coroutine
\* returns, or the exception the finally block was entered with goes on
AioRunReturns ==
    /\ unitAsync /\ pc = "after" /\ inHook = "no" /\ OnCpu
    /\ AfterHooksDone
    /\ AioRunEnds(raising)
    /\ UNCHANGED <<mainPc, cfgVars, envVars, regVars, cntVars, idx, entry, raising,
                   hookFailed, stop_event, global_task, task, awaits, sigints, exiting,
                   orchVars>>

\* Event.set(): the waiter of stop_event.wait(), if any, is woken
EventSet(rdy) == IF stop_event = "clear" /\ pc = "wait" THEN Woken(rdy, "aio_run") ELSE rdy

\* ------------------------------------------------------------------ main_task()
\* module.main awaits something: main_task suspends.  A cancellation requested
\* while it was running cancels the future it starts to wait on.
EntryAwait ==
    /\ cur = "main_task" /\ task = "run"
    /\ awaits < MaxAwaits
    /\ awaits' = awaits + 1
    /\ task' = "susp"
    /\ cur' = "none"
    /\ ready' = IF mustCancel THEN Append(ready, "main_task") ELSE ready
    /\ UNCHANGED <<mainPc, cfgVars, envVars, regVars, cntVars, runVars, stop_event,
                   global_task, mustCancel, supCancel, loop, pendingExc, sigints, exiting,
                   orchVars>>

\* a main_task without its finally block
MainTaskEndsSilently(how) ==
    /\ cur = "main_task" /\ task = "run"
    /\ how = "cancelled" => entry = "cleanup"
    /\ entry' = how
    /\ task' = "done"
    /\ cur' = "none"
    /\ mustCancel' = FALSE
    /\ UNCHANGED <<mainPc, cfgVars, envVars, regVars, cntVars, pc, idx, inHook,
                   raising, hookFailed, outcome, stop_event, ready, global_task, supCancel,
                   loop, pendingExc, awaits, sigints, exiting, orchVars>>

\* module.main ends (it returns, raises, or lets CancelledError through) and
\* main_task's finally block sets stop_event
MainTaskEnds(how) ==
    /\ cur = "main_task" /\ task = "run"
    /\ how = "cancelled" => entry = "cleanup"
    /\ entry' = how
    /\ task' = "done"
    /\ cur' = "none"
    /\ mustCancel' = FALSE
    /\ stop_event' = "set"
    /\ ready' = EventSet(ready)
    /\ UNCHANGED <<mainPc, cfgVars, envVars, regVars, cntVars, pc, idx, inHook,
                   raising, hookFailed, outcome, global_task, supCancel, loop, pendingExc,
                   awaits, sigints, exiting, orchVars>>

\* ------------------------------------------------------------------ the loop
\* what a suspended task awaits (a timer, I/O) completes: its wakeup is queued
TaskWake(h) ==
    /\ loop \in {"run", "close"}
    /\ ~InReady(ready, h)
    /\ \/ h = "main_task" /\ task = "susp"
       \/ h = "aio_run" /\ inHook = "susp" /\ cur # "aio_run"
    /\ ready' = Append(ready, h)
    /\ UNCHANGED <<mainPc, cfgVars, envVars, regVars, cntVars, runVars, stop_event,
                   global_task, task, mustCancel, supCancel, cur, loop, pendingExc,
                   awaits, sigints, exiting, orchVars>>

\* the loop steps aio_run's task: it resumes where it was suspended, or
\* CancelledError is thrown in there.  Thrown at stop_event.wait() it enters
\* the finally block; thrown into a hook it leaves the hook and aio_run.
StepAioRun ==
    /\ loop \in {"run", "close"} /\ cur = "none"
    /\ ready # <<>> /\ Head(ready) = "aio_run"
    /\ supCancel' = FALSE
    /\ IF supCancel /\ pc # "wait"
         THEN /\ pc' = "done" /\ inHook' = "no"
              /\ raising' = "cancel"
              /\ UNCHANGED <<idx, cur>>
         ELSE /\ cur' = "aio_run"
              /\ raising' = IF supCancel THEN "cancel" ELSE raising
              /\ IF pc = "wait"
                   THEN pc' = "after" /\ idx' = 1 /\ UNCHANGED inHook
                   ELSE inHook' = "run" /\ UNCHANGED <<pc, idx>>
    /\ ready' = Tail(ready)
    /\ UNCHANGED <<mainPc, cfgVars, envVars, regVars, cntVars, entry, hookFailed,
                   outcome, stop_event, global_task, task, mustCancel, loop, pendingExc,
                   awaits, sigints, exiting, orchVars>>

\* the loop steps main_task: its first step calls module.main; a later step
\* resumes it.  A pending cancellation is thrown in: before the first step the
\* coroutine ends without running a line, later module.main receives it.
StepMainTask ==
    /\ loop \in {"run", "close"} /\ cur = "none"
    /\ ready # <<>> /\ Head(ready) = "main_task"
    /\ ready' = Tail(ready)
    /\ mustCancel' = FALSE
    /\ IF task = "scheduled"
         THEN IF mustCancel
                THEN task' = "done" /\ UNCHANGED <<cur, entry>>
                ELSE task' = "run" /\ cur' = "main_task" /\ entry' = "running"
         ELSE /\ task' = "run" /\ cur' = "main_task"
              /\ entry' = IF mustCancel THEN "cleanup" ELSE entry
    /\ UNCHANGED <<mainPc, cfgVars, envVars, regVars, cntVars, pc, idx, inHook,
                   raising, hookFailed, outcome, stop_event, global_task, supCancel, loop,
                   pendingExc, awaits, sigints, exiting, orchVars>>

\* run_until_complete(aio_run) is over: asyncio.run cancels every task left
StepStop ==
    /\ loop = "run" /\ cur = "none"
    /\ ready # <<>> /\ Head(ready) = "stop"
    /\ LET c == CancelAll(Tail(ready), FALSE, FALSE, task, mustCancel) IN
         ready' = c.ready /\ mustCancel' = c.mustCancel
    /\ loop' = "close"
    /\ UNCHANGED <<mainPc, cfgVars, envVars, regVars, cntVars, runVars, stop_event,
                   global_task, task, supCancel, cur, pendingExc, awaits, sigints, exiting,
                   orchVars>>

\* every cancelled task has ended: asyncio.run returns or raises, and start()
\* logs 'Finish' only when it returned
AsyncioRunEnds ==
    /\ loop = "close" /\ cur = "none"
    /\ pc = "done" /\ task \in {"none", "done"}
    /\ loop' = "closed"
    /\ outcome' = CASE pendingExc = "none" -> "finished"
                    [] pendingExc = "error" -> "error"
                    [] OTHER -> "exit1"
    /\ mainPc' = IF pendingExc = "none" THEN "returned" ELSE mainPc
    /\ UNCHANGED <<cfgVars, envVars, regVars, cntVars, pc, idx, inHook, entry, raising,
                   hookFailed, stop_event, global_task, task, mustCancel, supCancel, ready,
                   cur, pendingExc, awaits, sigints, exiting, orchVars>>

\* ------------------------------------------------------------------ sigint_handler
\* SystemExit leaves the loop (raised in select() or re-raised by a task's
\* step): in run_until_complete(aio_run) asyncio.run goes on to cancel the
\* tasks left and to run the loop until they end; raised while it does that,
\* it ends asyncio.run.  tsk, mc: main_task's state and pending cancellation.
LoopAborts(tsk, mc) ==
    IF loop = "run"
      THEN LET c == CancelAll(ready, pc # "done", SupSuspended, tsk, mc) IN
           /\ loop' = "close" /\ pendingExc' = "exit"
           /\ ready' = c.ready /\ mustCancel' = c.mustCancel /\ supCancel' = c.supCancel
           /\ UNCHANGED outcome
      ELSE /\ loop' = "closed" /\ outcome' = "exit1"
           /\ UNCHANGED <<ready, pendingExc, mustCancel, supCancel>>

\* sys.exit(1) in the handler: SystemExit is raised where the main thread is
SysExit ==
    /\ exiting' = TRUE
    /\ CASE cur = "none" ->
              /\ LoopAborts(task, mustCancel)
              /\ UNCHANGED <<pc, idx, inHook, raising, entry, task, cur>>
         [] cur = "aio_run" /\ pc \in {"mktask", "await"} ->
              /\ pc' = "after" /\ idx' = 1 /\ raising' = "exit"
              /\ UNCHANGED <<inHook, entry, task, cur, loop, pendingExc, ready, mustCancel,
                             supCancel, outcome>>
         [] cur = "aio_run" /\ pc \notin {"mktask", "await"} ->
              /\ AioRunEnds("exit")
              /\ raising' = "exit"
              /\ UNCHANGED <<idx, entry, task>>
         [] cur = "main_task" ->
              /\ entry' = "exited" /\ task' = "done" /\ cur' = "none"
              /\ LoopAborts("done", FALSE)
              /\ UNCHANGED <<pc, idx, inHook, raising>>
    /\ UNCHANGED <<stop_event, global_task>>

\* sigint_handler(signal, frame), run by the main thread wherever it is
sigint_handler ==
    /\ loop \in {"run", "close"}
    /\ sigints < MaxSigint
    /\ sigints' = sigints + 1
    /\ IF stop_event = "set"
         THEN SysExit
         ELSE LET r1 == EventSet(ready)
                  live == global_task # "None" /\ task # "done"
              IN  /\ stop_event' = IF stop_event = "clear" THEN "set" ELSE stop_event
                  /\ mustCancel' = (mustCancel \/ live)
                  /\ ready' = IF live /\ task = "susp" THEN Woken(r1, "main_task") ELSE r1
                  /\ UNCHANGED <<pc, idx, inHook, raising, entry, task, cur, loop,
                                 pendingExc, supCancel, outcome, exiting, global_task>>
    /\ UNCHANGED <<mainPc, cfgVars, envVars, regVars, cntVars, hookFailed, awaits,
                   orchVars>>

\* ------------------------------------------------------------------ orchestrator
\* time advances in steps of half a join quantum
HalfQuantum == Quantum \div 2

\* the clock that measures from the first replica exit stops counting here
ElapsedCap == 2 * (MaxProcs + 1) * Quantum

\* main(), processes > 1: "processes = []"
MainSpawn ==
    /\ mainPc = "init"
    /\ processes > 1
    /\ mainPc' = "spawn"
    /\ procs' = <<>>
    /\ UNCHANGED <<cfgVars, envVars, regVars, cntVars, runVars, aioVars, pi, running,
                   remaining, elapsed>>

\* replica indices counted from 0
ProcessArgsFromZero(i) == [process_id |-> i, processes |-> processes]

\* Process(target=start, args=(args.module_name, module_argv, args.processes, i + 1))
ProcessArgs(i) == [process_id |-> i + 1, processes |-> processes]

\* "for i in range(args.processes)": p.start(); processes.append(p)
SpawnProcess ==
    /\ mainPc = "spawn"
    /\ Len(procs) < processes
    /\ LET i == Len(procs) IN
         procs' = Append(procs, [args |-> ProcessArgs(i), alive |-> TRUE,
                                 loaded |-> FALSE, environ |-> <<>>,
                                 terminated |-> FALSE, killed |-> FALSE])
    /\ UNCHANGED <<mainPc, cfgVars, envVars, regVars, cntVars, runVars, aioVars, pi,
                   running, remaining, elapsed>>

\* the spawn loop is over; "running = True" and the first p.join(10) begins
SpawnDone ==
    /\ mainPc = "spawn"
    /\ ~(Len(procs) < processes)
    /\ mainPc' = "poll"
    /\ running' = TRUE
    /\ pi' = 1
    /\ remaining' = Quantum
    /\ UNCHANGED <<cfgVars, envVars, regVars, cntVars, runVars, aioVars, procs, elapsed>>

\* an orchestrator that takes every replica for dead
IsAliveNever(k) == FALSE

\* p.is_alive()
IsAlive(k) == procs[k].alive

\* a replica's start(): import_module(...) runs the unit's module-level code
ReplicaImport(k) ==
    /\ k \in DOMAIN procs
    /\ procs[k].alive /\ ~procs[k].loaded
    /\ procs' = [procs EXCEPT ![k].loaded = TRUE]
    /\ UNCHANGED <<mainPc, cfgVars, envVars, regVars, cntVars, runVars, aioVars, pi,
                   running, remaining, elapsed>>

\* a replica's start(), after the import: os.environ['PROCESS_ID'],
\* os.environ['PROCESSES']; parse_args and the entry point follow
ReplicaPublish(k) ==
    /\ k \in DOMAIN procs
    /\ procs[k].alive /\ procs[k].loaded /\ procs[k].environ = <<>>
    /\ procs' = [procs EXCEPT ![k].environ = PublishedEnv(@, procs[k].args)]
    /\ UNCHANGED <<mainPc, cfgVars, envVars, regVars, cntVars, runVars, aioVars, pi,
                   running, remaining, elapsed>>

\* a replica stops being alive: its start() returned or raised, or a signal
\* (the orchestrator's SIGTERM among them) ended it
ReplicaExit(k) ==
    /\ k \in DOMAIN procs
    /\ procs[k].alive
    /\ procs' = [procs EXCEPT ![k].alive = FALSE]
    /\ elapsed' = IF elapsed < 0 THEN 0 ELSE elapsed
    /\ UNCHANGED <<mainPc, cfgVars, envVars, regVars, cntVars, runVars, aioVars, pi,
                   running, remaining>>

\* a wait that always lasts the whole quantum
JoinSleeps == remaining = 0

\* p.join(10) returns, because p has ended or the quantum is over
JoinReturns == ~IsAlive(pi) \/ remaining = 0

\* time passes while the orchestrator is blocked in p.join(10)
Tick ==
    /\ mainPc \in {"poll", "grace"}
    /\ ~JoinReturns
    /\ remaining' = remaining - HalfQuantum
    /\ elapsed' = IF elapsed < 0 THEN elapsed
                  ELSE IF elapsed + HalfQuantum > ElapsedCap THEN ElapsedCap
                  ELSE elapsed + HalfQuantum
    /\ UNCHANGED <<mainPc, cfgVars, envVars, regVars, cntVars, runVars, aioVars, procs,
                   pi, running>>

\* a poll loop that never leaves on a dead replica
PollWithoutBreak ==
    /\ mainPc = "poll"
    /\ JoinReturns
    /\ pi' = IF pi < Len(procs) THEN pi + 1 ELSE 1
    /\ remaining' = Quantum
    /\ UNCHANGED <<mainPc, running, cfgVars, envVars, regVars, cntVars, runVars,
                   aioVars, procs, elapsed>>

\* the poll loop: p.join(10); if not p.is_alive(): running = False; break.
\* When the for loop is over, "while running" starts it again.
Poll ==
    /\ mainPc = "poll"
    /\ JoinReturns
    /\ IF ~IsAlive(pi)
         THEN /\ running' = FALSE
              /\ mainPc' = "terminate"
              /\ pi' = 1
              /\ remaining' = 0
         ELSE /\ pi' = IF pi < Len(procs) THEN pi + 1 ELSE 1
              /\ remaining' = Quantum
              /\ UNCHANGED <<running, mainPc>>
    /\ UNCHANGED <<cfgVars, envVars, regVars, cntVars, runVars, aioVars, procs, elapsed>>

\* the shutdown loop: p.terminate(), and p.join(10) begins
Terminate ==
    /\ mainPc = "terminate"
    /\ procs' = [procs EXCEPT ![pi].terminated = TRUE]
    /\ mainPc' = "grace"
    /\ remaining' = Quantum
    /\ UNCHANGED <<cfgVars, envVars, regVars, cntVars, runVars, aioVars, pi, running,
                   elapsed>>

\* the shutdown loop: p.join(10) returns; if p.is_alive(): p.kill().  After
\* the last replica main() returns.
Grace ==
    /\ mainPc = "grace"
    /\ JoinReturns
    /\ procs' = IF IsAlive(pi)
                  THEN [procs EXCEPT ![pi].alive = FALSE, ![pi].killed = TRUE]
                  ELSE procs
    /\ remaining' = 0
    /\ IF pi < Len(procs)
         THEN pi' = pi + 1 /\ mainPc' = "terminate"
         ELSE mainPc' = "returned" /\ UNCHANGED pi
    /\ UNCHANGED <<cfgVars, envVars, regVars, cntVars, runVars, aioVars, running,
                   elapsed>>

Orchestrator == MainSpawn \/ SpawnProcess \/ SpawnDone \/ Poll \/ Terminate \/ Grace

Replicas == \E k \in 1..MaxProcs : ReplicaImport(k) \/ ReplicaPublish(k) \/ ReplicaExit(k)

Hooks == HookInvoke \/ HookReturn \/ HookRaise

SyncRun == RunCallMain \/ RunEnds
           \/ (\E how \in {"returned", "raised", "interrupted"} : RunMainEnds(how))

AioRun == AioNewEvent \/ AioCreateTask \/ AioAwaitEvent \/ AioRunReturns

MainTask == EntryAwait
            \/ (\E how \in {"returned", "raised", "cancelled"} : MainTaskEnds(how))

EventLoop == StepAioRun \/ StepMainTask \/ StepStop \/ AsyncioRunEnds
             \/ (\E h \in {"aio_run", "main_task"} : TaskWake(h))

Registry == \E e \in HookKinds : before_start(e) \/ after_stop(e)

Next == MainDirect \/ StartDispatch \/ Registry \/ Hooks \/ SyncRun
        \/ AioRun \/ MainTask \/ EventLoop \/ sigint_handler
        \/ Orchestrator \/ Replicas \/ Tick

Spec == Init /\ [][Next]_vars

\* main() is a sequential program whose every step ends (each join is bounded),
\* and time does not stop
FairSpec == Spec /\ WF_vars(Orchestrator \/ Tick)

\* the event loop runs the handle at the head of its ready queue: a woken
\* aio_run is stepped
FairLoopSpec == Spec /\ WF_vars(StepAioRun)

\* ------------------------------------------------------------------ split_argv()
\* command-line tokens, as sequences of characters: -p, -p=3, 3, m, a
Tokens == {<<"-", "p">>, <<"-", "p", "=", "3">>, <<"3">>, <<"m">>, <<"a">>}

ArgLists == UNION {[1..n -> Tokens] : n \in 0..MaxArgs}

\* a list taken from its front
ReverseNot(s) == s

\* list.reverse()
Reverse(s) == [i \in 1..Len(s) |-> s[Len(s) + 1 - i]]

\* str.startswith(c), c one character
StartsWith(arg, c) == Len(arg) > 0 /\ arg[1] = c

\* str.find(c), c one character: the 0-based position of the first c, or -1
Find(arg, c) ==
    IF \E i \in DOMAIN arg : arg[i] = c
      THEN (CHOOSE i \in DOMAIN arg : arg[i] = c /\ \A j \in 1..(i - 1) : arg[j] # c) - 1
      ELSE -1

\* a flag that never takes the next token
TakesValueNever(arg, argv) == FALSE

\* the nested ifs of the loop body: arg is a flag without '=' and a token is
\* left, so "script_argv.append(argv.pop())" runs
TakesValue(arg, argv) == StartsWith(arg, "-") /\ Find(arg, "=") = -1 /\ Len(argv) > 0

\* the "while True" loop over the reversed copy: argv.pop() takes its last element
RECURSIVE SplitLoop(_, _, _, _)
SplitLoop(argv, script_argv, is_module_argv, module_argv) ==
    IF Len(argv) = 0
      THEN <<script_argv, module_argv>>
      ELSE LET arg == argv[Len(argv)]
               rest == SubSeq(argv, 1, Len(argv) - 1)
           IN  IF is_module_argv
                 THEN SplitLoop(rest, script_argv, TRUE, Append(module_argv, arg))
                 ELSE IF TakesValue(arg, rest)
                        THEN SplitLoop(SubSeq(rest, 1, Len(rest) - 1),
                                       script_argv \o <<arg, rest[Len(rest)]>>,
                                       FALSE, module_argv)
                        ELSE SplitLoop(rest, Append(script_argv, arg),
                                       ~StartsWith(arg, "-"), module_argv)

\* split_argv(argv): works on "argv = list(argv)", reversed
split_argv(argv) == SplitLoop(Reverse(argv), <<>>, FALSE, <<>>)

\* ------------------------------------------------------------------ pretty_time()
Digits == <<"0", "1", "2", "3", "4", "5", "6", "7", "8", "9">>

\* str(n), n >= 0: its decimal digits
RECURSIVE str(_)
str(n) == IF n < 10 THEN <<Digits[n + 1]>> ELSE Append(str(n \div 10), Digits[(n % 10) + 1])

\* s[-2:]
LastTwo(s) == IF Len(s) <= 2 THEN s ELSE SubSeq(s, Len(s) - 1, Len(s))

\* mod60(t): floor(t / 60), t % 60
mod60(t) == <<t \div 60, t % 60>>

\* "for i in range(2)": t, v = mod60(t); out.append(f'0{v}'[-2:]); break on
\* t == 0.  The result is t and out as the loop leaves them.
RECURSIVE PrettyLoop(_, _, _)
PrettyLoop(t, out, i) ==
    IF i >= 2
      THEN <<t, out>>
      ELSE LET tv == mod60(t)
               out1 == Append(out, LastTwo(<<"0">> \o str(tv[2])))
           IN  IF tv[1] = 0 THEN <<tv[1], out1>> ELSE PrettyLoop(tv[1], out1, i + 1)

\* sep.join(parts)
RECURSIVE Join(_, _)
Join(parts, sep) ==
    IF parts = <<>> THEN <<>>
    ELSE IF Len(parts) = 1 THEN parts[1]
    ELSE parts[1] \o <<sep>> \o Join(Tail(parts), sep)

\* pretty_time(t): the string returned, as its sequence of characters
pretty_time(t) ==
    LET r == PrettyLoop(t, <<>>, 0)
        out == Append(r[2], IF r[1] < 10 THEN <<"0">> \o str(r[1]) ELSE str(r[1]))
    IN  Join(Reverse(out), ":")

\* durations: every count of hours up to MaxHours, with minutes and seconds
\* around the one- and two-digit boundaries
Sixty == {0, 1, 9, 10, 59}

Times == {h * 3600 + m * 60 + sec : h \in 0..MaxHours, m \in Sixty, sec \in Sixty}

\* ------------------------------------------------------------------ the two functions called on their own
UtilInit ==
    /\ Loaded
    /\ processes = 1 /\ unitAsync = FALSE /\ environ = <<>>
    /\ retval = <<"pending">>
    /\ \/ utilFn = "split_argv" /\ argvArg \in ArgLists /\ tArg = 0
       \/ utilFn = "pretty_time" /\ argvArg = <<>> /\ tArg \in Times

CallSplitArgv ==
    /\ utilFn = "split_argv" /\ retval = <<"pending">>
    /\ retval' = <<"returned", split_argv(argvArg)>>
    /\ UNCHANGED <<mainPc, processes, unitAsync, utilFn, argvArg, tArg, envVars, regVars,
                   cntVars, runVars, aioVars, orchVars>>

CallPrettyTime ==
    /\ utilFn = "pretty_time" /\ retval = <<"pending">>
    /\ retval' = <<"returned", pretty_time(tArg)>>
    /\ UNCHANGED <<mainPc, processes, unitAsync, utilFn, argvArg, tArg, envVars, regVars,
                   cntVars, runVars, aioVars, orchVars>>

UtilNext == CallSplitArgv \/ CallPrettyTime

UtilSpec == UtilInit /\ [][UtilNext]_vars

\* ------------------------------------------------------------------ properties
\* start() has ended: it returned, raised, or the process is exiting
RunOver == outcome # "none"

\* every registered after-stop hook was invoked once and ran to completion
AfterOnce == \A i \in DOMAIN after_stop_events : afterCalls[i] = 1 /\ afterDone[i] = 1

\* C1 (as claimed): in a run whose entry point was reached, in which no hook
\* raised and at most one interrupt was delivered, no after-stop hook is ever
\* invoked twice, and when the run is over every after-stop hook has been
\* invoked exactly once and has completed.
C1_AfterHooksExactlyOnce ==
    /\ \A i \in DOMAIN after_stop_events : afterCalls[i] <= 1
    /\ (RunOver /\ entry # "none" /\ ~hookFailed /\ sigints <= 1) => AfterOnce

\* C2 (as claimed): in the asynchronous model, in a run interrupted once whose
\* entry point was started, whenever an after-stop hook is executing (running
\* or suspended at an await), main_task has ended.
C2_AfterHooksAfterTaskEnd ==
    (unitAsync /\ sigints = 1 /\ entry # "none" /\ pc = "after" /\ inHook # "no")
        => task = "done"

\* C3 (as claimed): in the asynchronous model the first interrupt, whenever it
\* arrives, does not terminate the process, leaves the cancellation event set,
\* and (no hook raising) the run ends with every after-stop hook completed.
C3_FirstInterruptGraceful ==
    (unitAsync /\ sigints = 1) =>
        /\ ~exiting /\ outcome # "exit1"
        /\ stop_event = "set"
        /\ (RunOver /\ ~hookFailed) => AfterOnce

\* C4 (as claimed): in a run whose entry point was started, once a second
\* interrupt has made the handler call sys.exit(1), no after-stop hook is
\* started and none completes.
C4_NoHooksAfterForcedExit ==
    [][(exiting /\ sigints >= 2 /\ entry # "none")
          => (afterCalls' = afterCalls /\ afterDone' = afterDone)]_vars

\* C10 (as claimed): in the asynchronous model, when the entry point raised,
\* start() does not end as a successful completion.
C10_AsyncFailureSurfaces ==
    (unitAsync /\ entry = "raised" /\ RunOver) => outcome # "finished"

\* what holds of C1's statement in the runs where sigint_handler has not
\* called sys.exit(1)
AfterOnceUnlessForcedExit ==
    (RunOver /\ entry # "none" /\ ~hookFailed /\ sigints <= 1 /\ ~exiting) => AfterOnce

\* C5: in both models, once the entry point has begun, every registered
\* before-start hook has been invoked once and has completed (none is pending
\* or in progress).
C5_BeforeHooksPrecedeEntry ==
    entry # "none" =>
        \A i \in DOMAIN before_start_events : beforeCalls[i] = 1 /\ beforeDone[i] = 1

\* C5's case: the entry point of an asynchronous unit runs after two
\* before-start hooks, the second one a coroutine function
C5_Witness ==
    /\ unitAsync /\ entry = "running"
    /\ Len(before_start_events) >= 2 /\ before_start_events[2] = "async"

\* C6: with processes = N > 1 the orchestrator never holds more than N
\* replicas and holds exactly N once the spawn loop is over; replica i was
\* started with (i, N), publishes exactly that identity, and the indices are
\* distinct and cover 1..N.
C6_ReplicaIdentities ==
    /\ Len(procs) <= processes
    /\ (processes <= 1 => procs = <<>>)
    /\ (mainPc \in {"poll", "terminate", "grace", "returned"} /\ processes > 1)
          => Len(procs) = processes
    /\ \A k \in DOMAIN procs :
          /\ procs[k].args = [process_id |-> k, processes |-> processes]
          /\ procs[k].environ \in {<<>>, <<k, processes>>}
    /\ {procs[k].args.process_id : k \in DOMAIN procs} = 1..Len(procs)

\* C6's case: main() has returned after orchestrating three replicas, each of
\* which published its identity
C6_Witness ==
    /\ mainPc = "returned" /\ processes = 3
    /\ \A k \in DOMAIN procs : procs[k].environ # <<>>

\* C7: in multi-process mode, once some spawned replica is not alive, the
\* orchestrator eventually leaves the poll loop, has sent a termination
\* request to every replica, has left no replica alive (those that outlived
\* their bounded wait were killed), and main() has returned.
C7_TeardownOnExit ==
    (mainPc \in {"spawn", "poll"} /\ \E k \in DOMAIN procs : ~procs[k].alive)
        ~> (/\ mainPc = "returned" /\ ~running
            /\ \A k \in DOMAIN procs : procs[k].terminated /\ ~procs[k].alive)

\* C7's case: main() has returned after a teardown in which one replica had
\* to be killed and another had ended by itself
C7_Witness ==
    /\ mainPc = "returned" /\ processes > 1
    /\ \E k \in DOMAIN procs : procs[k].killed
    /\ \E k \in DOMAIN procs : ~procs[k].killed

\* C8 (as claimed): with processes = 3, all replicas are terminated within one
\* polling quantum plus one grace wait of the first replica exit.
C8_TwoQuanta ==
    processes = 3 => elapsed <= Quantum + Quantum

\* C8 (amended): with processes = N, all replicas are terminated within
\* 2 * (N - 1) quanta of the first replica exit: up to N - 1 waits of the poll
\* loop before the exit is observed, then up to N - 1 grace waits.
C8_TeardownBound ==
    /\ elapsed <= 2 * (processes - 1) * Quantum
    /\ mainPc = "returned" /\ processes > 1 => \A k \in DOMAIN procs : ~procs[k].alive

\* C8's case: three replicas, and the teardown took the whole 40 time units
C8_Witness ==
    processes = 3 /\ mainPc = "returned" /\ elapsed = 4 * Quantum

\* C9 (as claimed): in the synchronous model, when the entry point raised and
\* the run is over, every after-stop hook has run and start() has raised.
C9_SyncFailure ==
    (~unitAsync /\ entry = "raised" /\ RunOver) => (AfterOnce /\ outcome = "error")

\* C9 (amended): in the synchronous model, when the entry point raised, start()
\* raises and does not log completion; every after-stop hook has run
\* unless one of them raised, which ends the after-stop loop.
C9_SyncFailurePropagates ==
    (~unitAsync /\ entry = "raised" /\ RunOver) =>
        /\ outcome = "error" /\ mainPc # "returned"
        /\ ~hookFailed => AfterOnce

\* C9's case: the entry point raised, two after-stop hooks ran, start() raised
C9_Witness ==
    /\ ~unitAsync /\ entry = "raised" /\ RunOver /\ ~hookFailed
    /\ Len(after_stop_events) >= 2

\* C11: with processes <= 1, main() calls start() once, in the calling process
\* (never more, and exactly once as soon as main() has moved), spawns no
\* child, and no step changes PROCESS_ID / PROCESSES in the environment.
C11_DirectStart ==
    [][processes <= 1 =>
          /\ environ' = environ
          /\ procs' = <<>>
          /\ startCalls' = 1
          /\ mainPc' \in {"direct", "returned"}]_vars

\* C11's case: main() returned from a direct run made in a process that had
\* inherited an identity, which is still there
C11_Witness ==
    /\ processes = 1 /\ mainPc = "returned" /\ startCalls = 1
    /\ procs = <<>> /\ environ = <<1, 2>>

\* split_argv / pretty_time has returned
Returned(fn) == utilFn = fn /\ retval[1] = "returned"

\* the position of the first token that is neither a flag nor a flag's value
\* (a flag without '=' takes the token after it), Len(args) + 1 if there is none
RECURSIVE FirstPositional(_, _)
FirstPositional(args, i) ==
    IF i > Len(args) THEN Len(args) + 1
    ELSE IF StartsWith(args[i], "-")
           THEN FirstPositional(args, IF Find(args[i], "=") = -1 THEN i + 2 ELSE i + 1)
           ELSE i

\* C12 (as claimed): split_argv returns, as module arguments, the first token
\* that is neither a flag nor a flag's value together with every token after
\* it, and as launcher arguments only the flags and values before it.
C12_SplitBeforeModule ==
    Returned("split_argv") =>
        LET k == FirstPositional(argvArg, 1) IN
        retval[2] = <<SubSeq(argvArg, 1, k - 1), SubSeq(argvArg, k, Len(argvArg))>>

\* C12 (amended): the first token that is neither a flag nor a flag's value
\* is the last launcher argument (it is the module name argparse reads); the
\* module arguments are the tokens after it.
C12_SplitAfterModule ==
    Returned("split_argv") =>
        LET k == FirstPositional(argvArg, 1) IN
        /\ retval[2][1] = SubSeq(argvArg, 1, IF k > Len(argvArg) THEN Len(argvArg) ELSE k)
        /\ retval[2][2] = SubSeq(argvArg, k + 1, Len(argvArg))

\* C12's case: split_argv(["-p", "3", "m", "a", "a"]) has returned
\* (["-p", "3", "m"], ["a", "a"])
C12_Witness ==
    /\ Returned("split_argv")
    /\ argvArg = <<(<<"-", "p">>), (<<"3">>), (<<"m">>), (<<"a">>), (<<"a">>)>>
    /\ retval[2] = << <<(<<"-", "p">>), (<<"3">>), (<<"m">>)>>, <<(<<"a">>), (<<"a">>)>> >>

\* a duration field zero-padded to two digits
Pad2(n) == IF n < 10 THEN <<"0">> \o str(n) ELSE str(n)

\* C13 (as claimed): pretty_time(t) is MM:SS for t < 3600 and H:MM:SS, the
\* hours zero-padded to two digits when below 10, for t >= 3600.
C13_PrettyTimeFormat ==
    Returned("pretty_time") =>
        LET h == tArg \div 3600
            m == (tArg % 3600) \div 60
            sec == tArg % 60
        IN  retval[2] = IF tArg < 3600
                          THEN Pad2(m) \o <<":">> \o Pad2(sec)
                          ELSE Pad2(h) \o <<":">> \o Pad2(m) \o <<":">> \o Pad2(sec)

\* what pretty_time returns: SS under a zero field below one minute, and
\* from one minute on all three fields, the hours shown even when zero
PrettyTimeAsCoded ==
    Returned("pretty_time") =>
        LET h == tArg \div 3600
            m == (tArg % 3600) \div 60
            sec == tArg % 60
        IN  retval[2] = IF tArg < 60
                          THEN <<"0", "0", ":">> \o Pad2(sec)
                          ELSE Pad2(h) \o <<":">> \o Pad2(m) \o <<":">> \o Pad2(sec)

\* C20: the two lists split_argv returns, concatenated, are its argument token
\* for token, and the caller's list is as it was passed.
C20_SplitPartition ==
    Returned("split_argv") => retval[2][1] \o retval[2][2] = argvArg

\* C20's case: a call that returned two non-empty lists, a flag having taken
\* its value
C20_Witness ==
    /\ Returned("split_argv")
    /\ Len(retval[2][1]) >= 3 /\ Len(retval[2][2]) >= 1
    /\ retval[2][1][1] = <<"-", "p">> /\ retval[2][1][2] = <<"3">>

\* the hooks of one phase were begun in registration order, each after the one
\* registered before it had completed, and none twice
InOrder(calls, done) ==
    /\ \A i \in DOMAIN calls : calls[i] <= 1 /\ done[i] <= calls[i]
    /\ \A i, j \in DOMAIN calls : (i < j /\ calls[j] > 0) => done[i] > 0

\* at most one hook of the phase is in progress
OneAtATime(calls, done) == Cardinality({i \in DOMAIN calls : calls[i] > done[i]}) <= 1

\* C14: in both models every step leaves the hooks of each phase invoked in
\* registration order and one at a time (a hook has begun only if the hook
\* registered before it in that phase has completed), and once the hook loops
\* may run no step adds, removes or reorders a registry entry.
C14_HooksInOrder ==
    [][/\ InOrder(beforeCalls', beforeDone') /\ OneAtATime(beforeCalls', beforeDone')
       /\ InOrder(afterCalls', afterDone') /\ OneAtATime(afterCalls', afterDone')
       /\ pc \notin {"idle", "load"} => regVars' = regVars]_vars

\* C14's case: an asynchronous run in which two hooks of each phase, the first
\* of the after-stop ones a coroutine function, have all completed
C14_Witness ==
    /\ unitAsync /\ RunOver
    /\ beforeDone = <<1, 1>> /\ afterDone = <<1, 1>>
    /\ after_stop_events[1] = "async"

\* the hook that raised is the one begun and never completed
FailedIn(calls, done) == hookFailed /\ \E i \in DOMAIN calls : calls[i] > done[i]

\* no hook registered after the one left incomplete was invoked
NoneAfterFailed(calls, done) ==
    \A i, j \in DOMAIN calls : (i < j /\ calls[i] > done[i]) => calls[j] = 0

\* C15: in both models, once a hook has raised, run() / aio_run() is over, no
\* hook registered after it in its phase is ever invoked, and start() does not
\* end as a completion (it raises, or the process exits with status 1); when
\* it was a before-start hook, the entry point is never started.
C15_HookFailureFatal ==
    /\ hookFailed => pc = "done"
    /\ FailedIn(beforeCalls, beforeDone) =>
          /\ NoneAfterFailed(beforeCalls, beforeDone)
          /\ entry = "none" /\ task = "none"
    /\ FailedIn(afterCalls, afterDone) => NoneAfterFailed(afterCalls, afterDone)
    /\ (hookFailed /\ RunOver) => (outcome \in {"error", "exit1"} /\ mainPc # "returned")

\* C15's case: the first of two before-start hooks raised and start() has raised
C15_Witness ==
    /\ hookFailed /\ RunOver /\ outcome = "error"
    /\ Len(before_start_events) = 2 /\ beforeCalls = <<1, 0>> /\ beforeDone = <<0, 0>>

\* C16: in the asynchronous model, whenever main_task is done the
\* cancellation event is set, and from then on aio_run eventually leaves
\* stop_event.wait() for its finally block, where the after-stop hooks run
\* (unless repeated interrupts end the process first).
C16_SupervisorUnblocked ==
    /\ [](task = "done" => stop_event = "set")
    /\ (task = "done") ~> (pc \in {"after", "done"} \/ loop = "closed")

\* C16's case: the entry point raised while aio_run was suspended at
\* stop_event.wait(), and aio_run is now running its after-stop hooks
C16_Witness ==
    /\ unitAsync /\ entry = "raised" /\ task = "done" /\ sigints = 0
    /\ pc = "after" /\ cur = "aio_run" /\ Len(after_stop_events) > 0

\* C17 (as claimed): in the asynchronous model, once start() has returned from
\* an uninterrupted run, the signal handler reaches no cancellation event and
\* no task handle of the run that ended.
C17_ContextDestroyed ==
    (unitAsync /\ mainPc = "returned" /\ sigints = 0) =>
        (stop_event = "None" /\ global_task = "None")

\* C18 (as claimed): a replica whose start() has loaded the unit (the unit's
\* module-level code has run) has its identity (index, count) published.
C18_IdentityBeforeLoad ==
    \A k \in DOMAIN procs : procs[k].loaded => procs[k].environ = <<k, processes>>

\* C19: while every replica is alive the orchestrator is spawning or polling,
\* its flag "running" is still set, and no replica has been sent a termination
\* request or a kill; the flag is cleared only with some replica not alive.
C19_NoEarlyTermination ==
    /\ (processes > 1 /\ \A k \in DOMAIN procs : procs[k].alive) =>
          /\ mainPc \in {"init", "spawn", "poll"} /\ running
          /\ \A k \in DOMAIN procs : ~procs[k].terminated /\ ~procs[k].killed
    /\ ~running => \E k \in DOMAIN procs : ~procs[k].alive

\* C19's case: three replicas, all alive and running the unit, and the poll
\* loop has waited a whole quantum on the last of them
C19_Witness ==
    /\ processes = 3 /\ mainPc = "poll" /\ pi = 3 /\ remaining = 0
    /\ \A k \in DOMAIN procs : procs[k].alive /\ procs[k].environ # <<>>
====
